---- MODULE Spec2Model ----
(***************************************************************************)
(* Model of src/index.ts: a command bus that turns a command into domain   *)
(* events and fans the events out to two groups of event handlers through  *)
(* two RxJS subscriptions over from(events).                               *)
(*                                                                         *)
(* JavaScript runs one job at a time.  EventBus.handle's Promise executor  *)
(* (both subscriptions over the synchronously emitting from(events)) is    *)
(* one job: `active` names the call whose job is on the stack, and no      *)
(* other call and no promise reaction runs until the job ends.  Handler    *)
(* promises settle in later jobs, when the stack is empty.  A handler      *)
(* "fails" when the promise its handle returned rejects (EventHandler.     *)
(* handle returns Promise<any>, src/index.ts:94).  A rejection that no      *)
(* reaction observes is recorded in `unhandled`; the process goes on.      *)
(***************************************************************************)
EXTENDS Naturals, Sequences, FiniteSets, TLC

\* Bounds of the model.
MaxCalls == 2
MaxEvents == 2
MaxHandlers == 2
MaxInvocations == 2

Calls == 1..MaxCalls

EventTypes == {"ItemAddedToCartEvent", "ItemRemovedFromCartEvent"}

Commands == {"AddItemToCartCommand", "RemoveItemFromCartCommand"}

SeqsUpTo(S, n) == UNION {[1..k -> S] : k \in 0..n}

\* An event handler is known by the constructor name its supports tests for.
Registries ==
  {r \in [sync : SeqsUpTo(EventTypes, MaxHandlers),
          async : SeqsUpTo(EventTypes, MaxHandlers)] :
     Len(r.sync) + Len(r.async) <= MaxHandlers}

VARIABLES
  eventHandlers,   \* the registry: [sync, async], each a sequence of handlers
  active,          \* the call whose synchronous job is running, 0 when none
  pc,              \* per call: "idle", "async", "sync", "returned"
  command,         \* per call: the command given to CommandBus.handle, or "none"
  events,          \* per call: the sequence given to EventBus.handle
  cmdHandled,      \* per call: invocations of AddItemToCartCommandHandler.handle
  cursor,          \* per call: next position of from(events) in the current pass
  inv,             \* per call: the handler invocations, in the order made
  allResult,       \* per call and position: state of the sync pass's Promise.all
  outcome,         \* per call: state of the promise returned to the caller
  asyncLog,        \* per call: what the async subscription's observer logged
  sinkStopped,     \* per call: the sync subscription's sink has completed
  received,        \* per call: positions delivered to subscriber.next
  unhandled        \* rejections that no reaction observes

vars == <<eventHandlers, active, pc, command, events, cmdHandled, cursor, inv,
          allResult, outcome, asyncLog, sinkStopped, received, unhandled>>

----
\* A variant of Supports that claims every event.
Supports_any(h, ev) == TRUE

\* ElasticSearchHandler.supports / ProjectionHandler.supports
Supports(h, ev) == ev = h

\* A variant of CommandSupports that claims every command.
CommandSupports_any(c) == TRUE

\* AddItemToCartCommandHandler.supports
CommandSupports(c) == c = "AddItemToCartCommand"

\* A variant of CommandHandle whose event reaches the fan-out twice.
CommandHandle_duplicated(c) == <<"ItemAddedToCartEvent", "ItemAddedToCartEvent">>

\* AddItemToCartCommandHandler.handle
CommandHandle(c) == <<"ItemAddedToCartEvent">>

\* A variant of SupportingHandlers that keeps the first match only (find).
SupportingHandlers_first(group, ev) ==
  LET reg == eventHandlers[group]
      all == SelectSeq([i \in 1..Len(reg) |-> i], LAMBDA i : reg[i] = ev)
  IN SubSeq(all, 1, IF Len(all) > 0 THEN 1 ELSE 0)

\* A variant of SupportingHandlers that yields the matches last first.
SupportingHandlers_reversed(group, ev) ==
  LET reg == eventHandlers[group]
      all == SelectSeq([i \in 1..Len(reg) |-> i], LAMBDA i : reg[i] = ev)
  IN [k \in 1..Len(all) |-> all[Len(all) + 1 - k]]

\* eventHandlers.<group>.filter(h => h.supports(value)), as registry indices
SupportingHandlers(group, ev) ==
  LET reg == eventHandlers[group]
  IN SelectSeq([i \in 1..Len(reg) |-> i], LAMBDA i : Supports(reg[i], ev))

\* .map(h => h.handle(value)): one pending promise per supporting handler
Invoke(group, p, ev) ==
  LET hs == SupportingHandlers(group, ev)
  IN [k \in 1..Len(hs) |->
        [group |-> group, pos |-> p, h |-> hs[k], status |-> "pending"]]

TotalEvents ==
  LET RECURSIVE Sum(_)
      Sum(c) == IF c = 0 THEN 0 ELSE Len(events[c]) + Sum(c - 1)
  IN Sum(MaxCalls)

\* The handler invocations a dispatch of evs makes, and those made so far
InvocationsOf(evs) ==
  LET RECURSIVE Sum(_)
      Sum(p) == IF p = 0 THEN 0
                ELSE Len(SupportingHandlers("sync", evs[p]))
                       + Len(SupportingHandlers("async", evs[p])) + Sum(p - 1)
  IN Sum(Len(evs))

TotalInvocations ==
  LET RECURSIVE Sum(_)
      Sum(c) == IF c = 0 THEN 0 ELSE Len(inv[c]) + Sum(c - 1)
  IN Sum(MaxCalls)

\* The bounds of the model admit a dispatch of evs.
WithinBounds(evs) ==
  /\ TotalEvents + Len(evs) <= MaxEvents
  /\ TotalInvocations + InvocationsOf(evs) <= MaxInvocations

Init ==
  /\ eventHandlers \in Registries
  /\ active = 0
  /\ pc = [c \in Calls |-> "idle"]
  /\ command = [c \in Calls |-> "none"]
  /\ events = [c \in Calls |-> <<>>]
  /\ cmdHandled = [c \in Calls |-> 0]
  /\ cursor = [c \in Calls |-> 1]
  /\ inv = [c \in Calls |-> <<>>]
  /\ allResult = [c \in Calls |-> <<>>]
  /\ outcome = [c \in Calls |-> "none"]
  /\ asyncLog = [c \in Calls |-> <<>>]
  /\ sinkStopped = [c \in Calls |-> FALSE]
  /\ received = [c \in Calls |-> <<>>]
  /\ unhandled = {}

\* A call can begin when no job is running; calls are numbered as they begin.
CanBegin(c) ==
  /\ active = 0
  /\ pc[c] = "idle"
  /\ \A d \in Calls : d < c => pc[d] # "idle"

\* A variant of BeginDispatch that subscribes the sync pass first.
BeginDispatch_syncFirst(c, evs) ==
  /\ events' = [events EXCEPT ![c] = evs]
  /\ outcome' = [outcome EXCEPT ![c] = "pending"]
  /\ pc' = [pc EXCEPT ![c] = "sync"]
  /\ cursor' = [cursor EXCEPT ![c] = 1]
  /\ active' = c

\* A variant of BeginDispatch that keeps the sequence in one place shared by
\* all calls.
BeginDispatch_shared(c, evs) ==
  /\ events' = [d \in Calls |-> evs]
  /\ outcome' = [outcome EXCEPT ![c] = "pending"]
  /\ pc' = [pc EXCEPT ![c] = "async"]
  /\ cursor' = [cursor EXCEPT ![c] = 1]
  /\ active' = c

\* EventBus.handle(events): new Promise(...) runs its executor at once.
BeginDispatch(c, evs) ==
  /\ events' = [events EXCEPT ![c] = evs]
  /\ outcome' = [outcome EXCEPT ![c] = "pending"]
  /\ pc' = [pc EXCEPT ![c] = "async"]
  /\ cursor' = [cursor EXCEPT ![c] = 1]
  /\ active' = c

\* CommandBus.handle(c)
CommandBusHandle(c, cmd) ==
  /\ CanBegin(c)
  /\ command' = [command EXCEPT ![c] = cmd]
  /\ IF CommandSupports(cmd)
       THEN /\ WithinBounds(CommandHandle(cmd))
            /\ cmdHandled' = [cmdHandled EXCEPT ![c] = @ + 1]
            /\ BeginDispatch(c, CommandHandle(cmd))
       ELSE /\ outcome' = [outcome EXCEPT ![c] = "success"]
            /\ pc' = [pc EXCEPT ![c] = "returned"]
            /\ UNCHANGED <<events, cmdHandled, cursor, active>>
  /\ UNCHANGED <<eventHandlers, inv, allResult, asyncLog,
                 sinkStopped, received, unhandled>>

\* EventBus.handle(events), called directly with any sequence of events
EventBusHandle(c, evs) ==
  /\ CanBegin(c)
  /\ WithinBounds(evs)
  /\ BeginDispatch(c, evs)
  /\ UNCHANGED <<eventHandlers, command, cmdHandled, inv, allResult,
                 asyncLog, sinkStopped, received, unhandled>>

\* A variant of AsyncNext that takes the events of the sequence last first.
AsyncNext_lastFirst(c) ==
  /\ active = c
  /\ pc[c] = "async"
  /\ cursor[c] <= Len(events[c])
  /\ LET p == Len(events[c]) + 1 - cursor[c]
     IN inv' = [inv EXCEPT ![c] = @ \o Invoke("async", p, events[c][p])]
  /\ asyncLog' = [asyncLog EXCEPT ![c] = Append(@, "async next")]
  /\ cursor' = [cursor EXCEPT ![c] = @ + 1]
  /\ UNCHANGED <<eventHandlers, active, pc, command, events, cmdHandled,
                 allResult, outcome, sinkStopped, received, unhandled>>

\* EventAsyncSubscriber._next(value), for the next value of from(events)
AsyncNext(c) ==
  /\ active = c
  /\ pc[c] = "async"
  /\ cursor[c] <= Len(events[c])
  /\ inv' = [inv EXCEPT ![c] = @ \o Invoke("async", cursor[c], events[c][cursor[c]])]
  /\ asyncLog' = [asyncLog EXCEPT ![c] = Append(@, "async next")]
  /\ cursor' = [cursor EXCEPT ![c] = @ + 1]
  /\ UNCHANGED <<eventHandlers, active, pc, command, events, cmdHandled,
                 allResult, outcome, sinkStopped, received,
                 unhandled>>

\* A variant of AsyncComplete that ends the async pass after one event.
AsyncComplete_early(c) ==
  /\ active = c
  /\ pc[c] = "async"
  /\ cursor[c] > Len(events[c]) \/ cursor[c] > 1
  /\ asyncLog' = [asyncLog EXCEPT ![c] = Append(@, "Async complete")]
  /\ pc' = [pc EXCEPT ![c] = "sync"]
  /\ cursor' = [cursor EXCEPT ![c] = 1]
  /\ UNCHANGED <<eventHandlers, active, command, events, cmdHandled, inv,
                 allResult, outcome, sinkStopped, received, unhandled>>

\* from(events) completes the async subscription; the sync one is subscribed.
AsyncComplete(c) ==
  /\ active = c
  /\ pc[c] = "async"
  /\ cursor[c] > Len(events[c])
  /\ asyncLog' = [asyncLog EXCEPT ![c] = Append(@, "Async complete")]
  /\ pc' = [pc EXCEPT ![c] = "sync"]
  /\ cursor' = [cursor EXCEPT ![c] = 1]
  /\ UNCHANGED <<eventHandlers, active, command, events, cmdHandled, inv,
                 allResult, outcome, sinkStopped, received,
                 unhandled>>

\* Promise.all(list) of the promises just made: an empty list is fulfilled.
PromiseAll(list) ==
  [state |-> IF Len(list) = 0 THEN "fulfilled" ELSE "pending", error |-> 0]

\* EventSyncSubscriber._next(value), for the next value of from(events)
SyncNext(c) ==
  /\ active = c
  /\ pc[c] = "sync"
  /\ cursor[c] <= Len(events[c])
  /\ LET made == Invoke("sync", cursor[c], events[c][cursor[c]])
     IN /\ inv' = [inv EXCEPT ![c] = @ \o made]
        /\ allResult' = [allResult EXCEPT ![c] = Append(@, PromiseAll(made))]
  /\ cursor' = [cursor EXCEPT ![c] = @ + 1]
  /\ UNCHANGED <<eventHandlers, active, pc, command, events, cmdHandled,
                 outcome, asyncLog, sinkStopped, received,
                 unhandled>>

\* A variant of CompleteOutcome that holds the outcome back for async work.
CompleteOutcome_waitsAsync(c) ==
  IF \E i \in 1..Len(inv[c]) :
       inv[c][i].group = "async" /\ inv[c][i].status = "pending"
    THEN outcome[c]
    ELSE "success"

\* A variant of CompleteOutcome whose complete never calls resolve.
CompleteOutcome_never(c) == outcome[c]

\* subscriber.complete: resolve() settles a promise that is still pending.
CompleteOutcome(c) == IF outcome[c] = "pending" THEN "success" ELSE outcome[c]

\* A variant of SyncComplete that empties the sync group on completion.
SyncComplete_deregisters(c) ==
  /\ active = c
  /\ pc[c] = "sync"
  /\ cursor[c] > Len(events[c])
  /\ outcome' = [outcome EXCEPT ![c] = "success"]
  /\ sinkStopped' = [sinkStopped EXCEPT ![c] = TRUE]
  /\ pc' = [pc EXCEPT ![c] = "returned"]
  /\ active' = 0
  /\ eventHandlers' = [eventHandlers EXCEPT !.sync = <<>>]
  /\ UNCHANGED <<command, events, cmdHandled, cursor, inv, allResult,
                 asyncLog, received, unhandled>>

\* from(events) completes the sync subscription: Subscriber._complete passes
\* it to the sink, whose complete calls resolve(); the job ends.  The
\* reactions of the already fulfilled Promise.all([]) run next and find the
\* sink stopped.
SyncComplete(c) ==
  /\ active = c
  /\ pc[c] = "sync"
  /\ cursor[c] > Len(events[c])
  /\ outcome' = [outcome EXCEPT ![c] = CompleteOutcome(c)]
  /\ sinkStopped' = [sinkStopped EXCEPT ![c] = TRUE]
  /\ pc' = [pc EXCEPT ![c] = "returned"]
  /\ active' = 0
  /\ UNCHANGED <<eventHandlers, command, events, cmdHandled, cursor, inv,
                 allResult, asyncLog, received, unhandled>>

\* A variant of CanSettle in which settling the outcome cancels async work.
CanSettle_cancelled(c, i) ==
  /\ active = 0
  /\ i \in 1..Len(inv[c])
  /\ inv[c][i].status = "pending"
  /\ inv[c][i].group = "async" => outcome[c] = "pending"

\* The promise handle returned settles in a job of its own (a timer's): the
\* stack is empty, the promise is pending, and nothing clears the timer.
CanSettle(c, i) ==
  /\ active = 0
  /\ i \in 1..Len(inv[c])
  /\ inv[c][i].status = "pending"

\* The invocations of call c for the same group and position as invocation i
Siblings(c, i) ==
  {j \in 1..Len(inv[c]) :
     /\ j # i
     /\ inv[c][j].group = inv[c][i].group
     /\ inv[c][j].pos = inv[c][i].pos}

\* this.destination.next(value) on the sink: dropped once the sink stopped
SinkNext(c, p) == IF sinkStopped[c] THEN received[c] ELSE Append(received[c], p)

\* The promise of invocation i of call c fulfils.  For a sync handler the
\* last fulfilment fulfils Promise.all, whose reaction calls destination.next.
HandlerResolve(c, i) ==
  /\ CanSettle(c, i)
  /\ inv' = [inv EXCEPT ![c][i].status = "resolved"]
  /\ LET p == inv[c][i].pos
         last == /\ inv[c][i].group = "sync"
                 /\ allResult[c][p].state = "pending"
                 /\ \A j \in Siblings(c, i) : inv[c][j].status = "resolved"
     IN IF last
          THEN /\ allResult' = [allResult EXCEPT ![c][p].state = "fulfilled"]
               /\ received' = [received EXCEPT ![c] = SinkNext(c, p)]
          ELSE UNCHANGED <<allResult, received>>
  /\ UNCHANGED <<eventHandlers, active, pc, command, events, cmdHandled,
                 cursor, outcome, asyncLog, sinkStopped,
                 unhandled>>

\* The promise of invocation i of call c rejects.  An async handler's promise
\* was dropped by _next; a sync handler's first rejection rejects Promise.all
\* and the promise .then returned, which nothing observes.
HandlerReject(c, i) ==
  /\ CanSettle(c, i)
  /\ inv' = [inv EXCEPT ![c][i].status = "rejected"]
  /\ LET g == inv[c][i].group
         p == inv[c][i].pos
         e == [call |-> c, group |-> g, pos |-> p, h |-> inv[c][i].h]
     IN IF g = "async"
          THEN /\ unhandled' = unhandled \cup {e}
               /\ UNCHANGED allResult
          ELSE IF allResult[c][p].state = "pending"
                 THEN /\ allResult' = [allResult EXCEPT
                                         ![c][p] = [state |-> "rejected",
                                                    error |-> inv[c][i].h]]
                      /\ unhandled' = unhandled \cup {e}
                 ELSE UNCHANGED <<allResult, unhandled>>
  /\ UNCHANGED <<eventHandlers, active, pc, command, events, cmdHandled,
                 cursor, outcome, asyncLog, sinkStopped,
                 received>>

Next ==
  \/ \E c \in Calls, cmd \in Commands : CommandBusHandle(c, cmd)
  \/ \E c \in Calls, evs \in SeqsUpTo(EventTypes, MaxEvents) : EventBusHandle(c, evs)
  \/ \E c \in Calls : AsyncNext(c)
  \/ \E c \in Calls : AsyncComplete(c)
  \/ \E c \in Calls : SyncNext(c)
  \/ \E c \in Calls : SyncComplete(c)
  \/ \E c \in Calls, i \in 1..MaxInvocations : HandlerResolve(c, i)
  \/ \E c \in Calls, i \in 1..MaxInvocations : HandlerReject(c, i)

Spec == Init /\ [][Next]_vars

\* The registry as the program sets it: one ProjectionHandler in the sync
\* group, one ElasticSearchHandler in the async group.
ProgramInit ==
  /\ Init
  /\ eventHandlers = [sync |-> <<"ItemAddedToCartEvent">>,
                      async |-> <<"ItemAddedToCartEvent">>]

\* The program's registry; job steps run to completion, and a handler's work
\* terminates.
FairSpec ==
  /\ ProgramInit
  /\ [][Next]_vars
  /\ WF_vars(\E c \in Calls :
               AsyncNext(c) \/ AsyncComplete(c) \/ SyncNext(c) \/ SyncComplete(c))
  /\ WF_vars(\E c \in Calls, i \in 1..MaxInvocations :
               HandlerResolve(c, i) \/ HandlerReject(c, i))

----
\* Vocabulary of the properties.  A handler supports an event when the name
\* it tests for is the event's.
Positions(c) == 1..Len(events[c])

Registered(g) == 1..Len(eventHandlers[g])

Invs(c, g) == {i \in 1..Len(inv[c]) : inv[c][i].group = g}

InvsAt(c, g, p) == {i \in Invs(c, g) : inv[c][i].pos = p}

InvsOf(c, g, p, h) == {i \in InvsAt(c, g, p) : inv[c][i].h = h}

Pending(c, i) == inv[c][i].status = "pending"

Rejected(c, i) == inv[c][i].status = "rejected"

Settled(c) == outcome[c] \in {"success", "failure"}

\* The pass of group g of call c has taken the event at position p.
PassedAsync(c, p) ==
  \/ pc[c] \in {"sync", "returned"}
  \/ pc[c] = "async" /\ cursor[c] > p

PassedSync(c, p) ==
  \/ pc[c] = "returned"
  \/ pc[c] = "sync" /\ cursor[c] > p

Dispatched(c) == pc[c] # "idle" /\ command[c] # "RemoveItemFromCartCommand"

\* C1: the outcome is success only when every sync handler that supports an
\* event of the sequence has been invoked for it and has finished.
C1_SuccessAfterSyncHandlers ==
  \A c \in Calls :
    (Dispatched(c) /\ outcome[c] = "success") =>
      \A p \in Positions(c), h \in Registered("sync") :
        eventHandlers.sync[h] = events[c][p] =>
          \E i \in InvsOf(c, "sync", p, h) : ~Pending(c, i)

\* C2: when a sync handler invocation has failed, the outcome is a failure
\* (never success, never left pending).
C2_SyncFailureFailsOutcome ==
  \A c \in Calls :
    (\E i \in Invs(c, "sync") : Rejected(c, i)) => outcome[c] = "failure"

\* C3: no sync handler is invoked for an event that follows an event for
\* which a sync handler failed.
C3_FailFast ==
  \A c \in Calls :
    \A i, j \in Invs(c, "sync") :
      ~(Rejected(c, i) /\ inv[c][i].pos < inv[c][j].pos)

\* C4: a sync handler is invoked for an event only when every sync handler
\* invocation for the earlier events has finished.
C4_CrossEventBarrier ==
  \A c \in Calls :
    \A i, j \in Invs(c, "sync") :
      inv[c][i].pos < inv[c][j].pos => ~Pending(c, i)

\* C5: the outcome settles exactly when the sync subscription completes,
\* whatever the async handlers have done, and async handlers are no cause
\* of a failure: a failed outcome has a failed sync handler.
C5_NonBlockingAsync ==
  \A c \in Calls :
    /\ pc[c] = "returned" => Settled(c)
    /\ pc[c] \in {"async", "sync"} => outcome[c] = "pending"
    /\ outcome[c] = "failure" => \E i \in Invs(c, "sync") : Rejected(c, i)

\* C5 witness: the outcome is settled while an async handler invoked for the
\* same sequence has not finished.
C5_Witness ==
  \E c \in Calls :
    /\ Settled(c)
    /\ \E i \in Invs(c, "async") : Pending(c, i)
    /\ \E i \in Invs(c, "sync") : ~Pending(c, i)

C7_UnsupportedCommand ==
  \A c \in Calls :
    command[c] = "RemoveItemFromCartCommand" =>
      /\ outcome[c] = "success"
      /\ cmdHandled[c] = 0
      /\ events[c] = <<>>
      /\ inv[c] = <<>>
      /\ asyncLog[c] = <<>>

\* C7 witness: an unsupported command was handled while handlers of both
\* groups are registered.
C7_Witness ==
  \E c \in Calls :
    /\ command[c] = "RemoveItemFromCartCommand"
    /\ pc[c] = "returned"
    /\ eventHandlers.sync # <<>>
    /\ eventHandlers.async # <<>>

\* C8: a sync handler is invoked at most once for an event, exactly once when
\* it supports the event and the sync pass has taken the event, and never
\* when it does not support the event.
C8_SyncExactlyOnce ==
  \A c \in Calls :
    \A p \in Positions(c), h \in Registered("sync") :
      LET n == Cardinality(InvsOf(c, "sync", p, h))
      IN IF eventHandlers.sync[h] = events[c][p]
           THEN n <= 1 /\ (PassedSync(c, p) => n = 1)
           ELSE n = 0

\* C8 witness: after a dispatch of two events, one handler supported an
\* event and another did not, and a handler had failed.
C8_Witness ==
  \E c \in Calls :
    /\ pc[c] = "returned"
    /\ Len(events[c]) = 2
    /\ \E p \in Positions(c), h, k \in Registered("sync") :
         /\ eventHandlers.sync[h] = events[c][p]
         /\ eventHandlers.sync[k] # events[c][p]
    /\ \E i \in Invs(c, "sync") : Rejected(c, i)

\* C9: an async handler is invoked at most once for an event, exactly once
\* when it supports the event and the async pass has taken it, never
\* otherwise; an event no handler of a group supports causes no invocation
\* and no error in that group; the async subscription reports no error.
C9_DeliveredToBothGroups ==
  \A c \in Calls :
    /\ \A p \in Positions(c), h \in Registered("async") :
         LET n == Cardinality(InvsOf(c, "async", p, h))
         IN IF eventHandlers.async[h] = events[c][p]
              THEN n <= 1 /\ (PassedAsync(c, p) => n = 1)
              ELSE n = 0
    /\ \A p \in Positions(c), g \in {"sync", "async"} :
         (\A h \in Registered(g) : eventHandlers[g][h] # events[c][p]) =>
           /\ InvsAt(c, g, p) = {}
           /\ ~\E e \in unhandled : e.call = c /\ e.group = g /\ e.pos = p
           /\ g = "sync" /\ PassedSync(c, p) => allResult[c][p].state = "fulfilled"
    /\ \A k \in 1..Len(asyncLog[c]) :
         asyncLog[c][k] \in {"async next", "Async complete"}
    /\ PassedAsync(c, Len(events[c])) =>
         Len(SelectSeq(asyncLog[c], LAMBDA l : l = "async next")) = Len(events[c])

\* C9 witness: a sync handler failed for the first event, an async handler
\* was invoked for it, and no handler supports the second event.
C9_Witness ==
  \E c \in Calls :
    /\ Len(events[c]) = 2
    /\ \E i \in InvsAt(c, "sync", 1) : Rejected(c, i)
    /\ InvsAt(c, "async", 1) # {}
    /\ \A g \in {"sync", "async"} :
         \A h \in Registered(g) : eventHandlers[g][h] # events[c][2]
    /\ pc[c] = "returned"

\* C10: an async handler invocation that is pending eventually finishes,
\* also when the outcome of its call settled first.
C10_AsyncOutlivesCall ==
  \A c \in Calls, i \in 1..MaxInvocations :
    (i \in Invs(c, "async") /\ Pending(c, i))
      ~> (i \in Invs(c, "async") /\ ~Pending(c, i))

\* C10 witness: an async handler finished after the outcome of its call had
\* settled.
C10_Witness ==
  \E c \in Calls :
    /\ outcome[c] = "success"
    /\ \E i \in Invs(c, "async") : inv[c][i].status = "resolved"

\* C11: within the sync pass and within the async pass of a dispatch the
\* invocations follow the order of the events: an invocation for a later
\* position is never made before one for an earlier position, and when it
\* is made every handler of the group that supports an earlier event has
\* been invoked for it.
C11_EventOrderWithinPass ==
  \A c \in Calls :
    \A b \in 1..Len(inv[c]) :
      /\ \A a \in 1..Len(inv[c]) :
           (a < b /\ inv[c][a].group = inv[c][b].group) =>
             inv[c][a].pos <= inv[c][b].pos
      /\ \A p \in 1..(inv[c][b].pos - 1) :
           \A h \in Registered(inv[c][b].group) :
             eventHandlers[inv[c][b].group][h] = events[c][p] =>
               InvsOf(c, inv[c][b].group, p, h) # {}

\* C11 witness: the async pass of a dispatch of two events invoked a handler
\* for each event, and the first of them has finished.
C11_Witness ==
  \E c \in Calls :
    /\ pc[c] = "returned"
    /\ \A p \in 1..2 : InvsAt(c, "async", p) # {}
    /\ \E i \in InvsAt(c, "async", 1) : ~Pending(c, i)

\* C12: a failure of an async handler is reported by the async
\* subscription's own error report and is not left unobserved.
C12_AsyncFailureReported ==
  \A c \in Calls :
    \A i \in Invs(c, "async") :
      Rejected(c, i) =>
        /\ \E k \in 1..Len(asyncLog[c]) :
             asyncLog[c][k] \notin {"async next", "Async complete"}
        /\ ~\E e \in unhandled :
              e.call = c /\ e.group = "async"
                /\ e.pos = inv[c][i].pos /\ e.h = inv[c][i].h

\* C13: the outcome of a call that is pending is eventually success or
\* failure.
C13_CallSettles ==
  \A c \in Calls : (outcome[c] = "pending") ~> Settled(c)

\* C13 witness: the outcome of a dispatch settled, its sync handler finished
\* and its async handler failed.
C13_Witness ==
  \E c \in Calls :
    /\ Settled(c)
    /\ Invs(c, "sync") # {}
    /\ \A i \in Invs(c, "sync") : ~Pending(c, i)
    /\ \E i \in Invs(c, "async") : Rejected(c, i)

\* C14: for AddItemToCartCommand the command handler's handle ran exactly
\* once and the sequence dispatched is the one event it returned, at every
\* moment of the dispatch: each pass takes that one event and no handler
\* adds to the sequence.  No other call runs the command handler.
C14_EventsAsReturned ==
  \A c \in Calls :
    IF command[c] = "AddItemToCartCommand"
      THEN /\ cmdHandled[c] = 1
           /\ events[c] = <<"ItemAddedToCartEvent">>
           /\ \A i \in 1..Len(inv[c]) : inv[c][i].pos = 1
           /\ Len(allResult[c]) <= 1
           /\ Len(SelectSeq(asyncLog[c], LAMBDA l : l = "async next")) <= 1
           /\ pc[c] = "returned" =>
                /\ Len(allResult[c]) = 1
                /\ Len(SelectSeq(asyncLog[c], LAMBDA l : l = "async next")) = 1
      ELSE cmdHandled[c] = 0

\* C14 witness: a supported command was handled, both groups had a handler
\* invoked for its event and every handler has finished.
C14_Witness ==
  \E c \in Calls :
    /\ command[c] = "AddItemToCartCommand"
    /\ pc[c] = "returned"
    /\ Invs(c, "sync") # {} /\ Invs(c, "async") # {}
    /\ \A i \in 1..Len(inv[c]) : ~Pending(c, i)

\* What one pass of group g makes of the sequence evs, and what a dispatch of
\* evs on its own makes: the async pass, then the sync pass, each event in
\* turn with its supporting handlers in registry order.
PassRun(g, evs) ==
  LET RECURSIVE Upto(_)
      Upto(p) ==
        IF p = 0 THEN <<>>
        ELSE LET hs == SelectSeq([h \in 1..Len(eventHandlers[g]) |-> h],
                                 LAMBDA h : eventHandlers[g][h] = evs[p])
             IN Upto(p - 1) \o [k \in 1..Len(hs) |-> <<g, p, hs[k]>>]
  IN Upto(Len(evs))

SoloRun(evs) == PassRun("async", evs) \o PassRun("sync", evs)

Made(c) == [i \in 1..Len(inv[c]) |-> <<inv[c][i].group, inv[c][i].pos, inv[c][i].h>>]

\* C16: whatever the other calls do, the handlers invoked in a call are
\* those a dispatch of its own events makes on its own, no more and in the
\* same order, its outcome is the one its own progress gives, and the
\* unobserved rejections are those of the calls' own failed handlers.
C16_CallsIndependent ==
  /\ \A c \in Calls :
       /\ Len(Made(c)) <= Len(SoloRun(events[c]))
       /\ Made(c) = SubSeq(SoloRun(events[c]), 1, Len(Made(c)))
       /\ pc[c] = "returned" => Made(c) = SoloRun(events[c])
       /\ outcome[c] = CASE pc[c] = "idle" -> "none"
                         [] pc[c] \in {"async", "sync"} -> "pending"
                         [] OTHER -> "success"
  /\ \A e \in unhandled :
       \E i \in 1..Len(inv[e.call]) :
         /\ Rejected(e.call, i)
         /\ <<e.group, e.pos, e.h>> = Made(e.call)[i]

\* C16 witness: a second call was made and a sync handler of it failed
\* while a handler of the first call was still pending; both outcomes are
\* success.
C16_Witness ==
  \E c, d \in Calls :
    /\ c < d
    /\ pc[c] = "returned" /\ pc[d] = "returned"
    /\ \E i \in 1..Len(inv[c]) : Pending(c, i)
    /\ \E j \in Invs(d, "sync") : Rejected(d, j)
    /\ outcome[c] = "success" /\ outcome[d] = "success"

\* C17: for one event, the handlers of a group are invoked in the order of
\* the registry: of two invocations of a group for the same position the
\* earlier one is of the handler registered earlier.
C17_RegistrationOrder ==
  \A c \in Calls :
    \A a, b \in 1..Len(inv[c]) :
      (/\ a < b
       /\ inv[c][a].group = inv[c][b].group
       /\ inv[c][a].pos = inv[c][b].pos) => inv[c][a].h < inv[c][b].h

\* C17 witness: two handlers of the sync group were invoked for the same
\* event.
C17_Witness ==
  \E c \in Calls :
    \E a, b \in Invs(c, "sync") :
      /\ a < b
      /\ inv[c][a].pos = inv[c][b].pos
      /\ inv[c][a].h # inv[c][b].h

\* C18: no step changes the registry.
C18_RegistryUnchanged == [][eventHandlers' = eventHandlers]_vars

\* C18 witness: with handlers registered in both groups, a dispatch
\* returned, a handler failed and every handler has finished.
C18_Witness ==
  \E c \in Calls :
    /\ pc[c] = "returned"
    /\ eventHandlers.sync # <<>> /\ eventHandlers.async # <<>>
    /\ \E i \in 1..Len(inv[c]) : Rejected(c, i)
    /\ \A i \in 1..Len(inv[c]) : ~Pending(c, i)

\* C19: in a dispatch every async invocation is made before every sync
\* invocation, and when a sync handler is invoked, or the sync pass has
\* begun, every async handler that supports an event of the sequence has
\* been invoked for it.
C19_AsyncPassFirst ==
  \A c \in Calls :
    /\ \A a \in Invs(c, "async"), s \in Invs(c, "sync") : a < s
    /\ (Invs(c, "sync") # {} \/ pc[c] = "sync") =>
         \A p \in Positions(c), h \in Registered("async") :
           eventHandlers.async[h] = events[c][p] => InvsOf(c, "async", p, h) # {}

\* C19 witness: in a dispatch of two events handlers of both groups were
\* invoked, the sync pass being still at work.
C19_Witness ==
  \E c \in Calls :
    /\ Len(events[c]) = 2
    /\ pc[c] = "sync"
    /\ Invs(c, "async") # {}
    /\ Invs(c, "sync") # {}

====
